---- MODULE Spec2Model ----
(***************************************************************************)
(* Model of the PPG pulse-transit-time programs:                           *)
(*   script.py      PTTCalculator, the live repeated-session flow          *)
(*   pwv_script.py  process_csv_file / calculate_ptt, the offline flow     *)
(*   ppg_live.py    the reader thread, the render callback and main        *)
(*                                                                         *)
(* Indices into arrays are 0-based, as in the source; At(s, i) reads       *)
(* element i of a sequence.  A filtered series is kept in units of         *)
(* 1/window_size: its element is the integer kernel-weighted sum, the      *)
(* float of the source being that sum times 1/5.  Velocities are exact     *)
(* rationals [num, den] in lowest terms.                                   *)
(***************************************************************************)
EXTENDS Integers, Sequences, FiniteSets, TLC

VARIABLES
    \* PTTCalculator (script.py)
    is_collecting, timestamps, ppg1_data, ppg2_data, ptt_values,
    all_ptt_values, collection_count,
    line,          \* what the last readline() gave: a line, or KeyboardInterrupt
    running,       \* the read loop of collect_data has not been left
    files,         \* artifacts written by save_plots / save_data
    master_csv,    \* rows of all_ptt_results.csv
    signal,        \* the waveform pair under the two sensors (environment)
    \* one call of an offline function (pwv_script.py)
    args, ret,
    \* ppg_live.py: the module globals shared by the two threads
    recording,
    live_timestamps,   \* the global timestamps of ppg_live.py
    sensor1_values, sensor2_values,
    csv_file,      \* the reader's CSV file: opened, closed, rows written
    ser_is_open,   \* ser.is_open
    reader,        \* read_serial_data: its position and locals
    plot,          \* update_plot: its position and locals, and the line data
    main           \* main: its position from plt.show() on

live_vars == <<is_collecting, timestamps, ppg1_data, ppg2_data, ptt_values,
               all_ptt_values, collection_count, line, running, files,
               master_csv, signal>>
call_vars == <<args, ret>>
shared_vars == <<recording, live_timestamps, sensor1_values, sensor2_values>>
thread_vars == <<shared_vars, csv_file, ser_is_open, reader, plot, main>>
vars == <<live_vars, call_vars, thread_vars>>

----------------------------------------------------------------------------
\* Program constants
window_size == 5
MinSamples == 50
peak_distance == 30
PTTLimit == 300
search_offset == 10
search_span == 100
HeightNum == 3
HeightDen == 10
default_distance_cm == 20

\* Bounds of the model
MaxSamples == 51
MaxCollections == 2
MaxRows == 6
MaxFeatures == 3
SeriesLen == 45
SamplePeriod == 10

----------------------------------------------------------------------------
\* Sequences and arithmetic

At(s, i) == s[i + 1]

Min(a, b) == IF a < b THEN a ELSE b

Abs(a) == IF a < 0 THEN -a ELSE a

RECURSIVE SumTo(_, _)
SumTo(s, n) == IF n = 0 THEN 0 ELSE s[n] + SumTo(s, n - 1)

SumSeq(s) == SumTo(s, Len(s))

\* s[i:] of Python, i >= 0
SliceFrom(s, i) == IF i >= Len(s) THEN <<>> ELSE SubSeq(s, i + 1, Len(s))

\* s[i:j] of Python, 0 <= i
Slice(s, i, j) == IF Min(j, Len(s)) <= i THEN <<>> ELSE SubSeq(s, i + 1, Min(j, Len(s)))

RECURSIVE Gcd(_, _)
Gcd(a, b) == IF b = 0 THEN a ELSE Gcd(b, a % b)

\* the rational n/d, d # 0, in lowest terms with a positive denominator
Rat(n, d) ==
    LET g == Gcd(Abs(n), Abs(d))
        s == IF d < 0 THEN -1 ELSE 1
    IN  [num |-> s * (n \div g), den |-> s * (d \div g)]

\* x / y on rationals; ZeroDivisionError when y is 0
RatDiv(x, y) ==
    IF y.num = 0 THEN [ok |-> FALSE, val |-> Rat(0, 1)]
    ELSE [ok |-> TRUE, val |-> Rat(x.num * y.den, x.den * y.num)]

----------------------------------------------------------------------------
\* numpy / scipy primitives used by both pipelines

\* np.ones(window_size)/window_size, in units of 1/window_size
Kernel == [i \in 1..window_size |-> 1]

\* np.convolve(a, v, mode='valid'): the shorter operand slides over the longer
\* one; ValueError when either is empty
Convolve(a, v) ==
    LET big   == IF Len(v) > Len(a) THEN v ELSE a
        small == IF Len(v) > Len(a) THEN a ELSE v
        S     == Len(small)
    IN  IF S = 0 THEN [ok |-> FALSE, val |-> <<>>]
        ELSE [ok |-> TRUE,
              val |-> [k \in 1..(Len(big) - S + 1) |->
                          SumSeq([j \in 1..S |-> small[j] * big[k + S - j]])]]

\* first index >= j that is i_max or holds a value other than v
RECURSIVE PlateauEnd(_, _, _)
PlateauEnd(x, j, v) ==
    IF j < Len(x) - 1 /\ At(x, j) = v THEN PlateauEnd(x, j + 1, v) ELSE j

\* scipy _local_maxima_1d from sample i on: midpoints of the strict local
\* maxima (plateaus included), first and last sample excluded
RECURSIVE LocalMaximaFrom(_, _)
LocalMaximaFrom(x, i) ==
    IF i >= Len(x) - 1 THEN <<>>
    ELSE IF At(x, i - 1) < At(x, i)
         THEN LET i_ahead == PlateauEnd(x, i + 1, At(x, i))
              IN  IF At(x, i_ahead) < At(x, i)
                  THEN <<(i + i_ahead - 1) \div 2>> \o LocalMaximaFrom(x, i_ahead + 1)
                  ELSE LocalMaximaFrom(x, i + 1)
         ELSE LocalMaximaFrom(x, i + 1)

LocalMaxima(x) == LocalMaximaFrom(x, 1)

\* peaks whose height is at least hnum/hden (hden > 0)
SelectByHeight(x, peaks, hnum, hden) ==
    SelectSeq(peaks, LAMBDA p : At(x, p) * hden >= hnum)

\* np.argsort(priority)[i] for a stable sort: the position (1-based) that is
\* i-th in ascending (priority, position) order
ArgSortAt(priority, i) ==
    CHOOSE j \in 1..Len(priority) :
        Cardinality({k \in 1..Len(priority) :
            \/ priority[k] < priority[j]
            \/ priority[k] = priority[j] /\ k < j}) = i - 1

SuppressedNone(peaks, j, distance) == {}

\* positions a kept peak at j suppresses: the neighbours closer than distance
Suppressed(peaks, j, distance) ==
    {k \in 1..Len(peaks) : k # j /\ Abs(peaks[j] - peaks[k]) < distance}

\* scipy _select_by_peak_distance: from the highest priority down, a peak still
\* kept removes every neighbour closer than distance
RECURSIVE SelectByPeakDistanceFrom(_, _, _, _, _)
SelectByPeakDistanceFrom(peaks, priority, distance, i, keep) ==
    IF i = 0 THEN keep
    ELSE LET j == ArgSortAt(priority, i)
         IN  IF j \notin keep
             THEN SelectByPeakDistanceFrom(peaks, priority, distance, i - 1, keep)
             ELSE SelectByPeakDistanceFrom(peaks, priority, distance, i - 1,
                                           keep \ Suppressed(peaks, j, distance))

SelectByPeakDistance(x, peaks, distance) ==
    LET priority == [k \in 1..Len(peaks) |-> At(x, peaks[k])]
        keep == SelectByPeakDistanceFrom(peaks, priority, distance, Len(peaks),
                                         1..Len(peaks))
    IN  SelectSeq([k \in 1..Len(peaks) |-> [pos |-> k, idx |-> peaks[k]]],
                  LAMBDA e : e.pos \in keep)

\* find_peaks(x, height=hnum/hden, distance=distance); distance 0 stands for
\* distance=None
FindPeaks(x, hnum, hden, distance) ==
    LET high == SelectByHeight(x, LocalMaxima(x), hnum, hden)
    IN  IF distance = 0 THEN high
        ELSE LET kept == SelectByPeakDistance(x, high, distance)
             IN  [k \in 1..Len(kept) |-> kept[k].idx]

\* find_peaks(x, height=np.mean(x), distance=30)
SystolicPeaks(x) == FindPeaks(x, SumSeq(x), Len(x), peak_distance)

----------------------------------------------------------------------------
\* Signal Conditioner (script.py 63-67, pwv_script.py 31-35)

MovingAverage(x) == Convolve(x, Kernel)

TimestampsFilteredOffByOne(ts) == SliceFrom(ts, window_size)

\* timestamps[window_size-1:]
TimestampsFiltered(ts) == SliceFrom(ts, window_size - 1)

----------------------------------------------------------------------------
\* PTTCalculator.process_data (script.py)

ValidPTTInclusive(ptt) == 0 <= ptt /\ ptt <= PTTLimit

\* "if 0 < ptt < 300", the same test in both scripts
ValidPTT(ptt) == 0 < ptt /\ ptt < PTTLimit

\* the pairing loop, from pair i on: absolute difference, kept when in (0, 300)
RECURSIVE PairPeaksFrom(_, _, _, _, _)
PairPeaksFrom(tsf, peaks1, peaks2, i, min_peaks) ==
    IF i >= min_peaks THEN <<>>
    ELSE LET ptt == Abs(At(tsf, At(peaks2, i)) - At(tsf, At(peaks1, i)))
         IN  (IF ValidPTT(ptt) THEN <<ptt>> ELSE <<>>)
                 \o PairPeaksFrom(tsf, peaks1, peaks2, i + 1, min_peaks)

PairPeaks(tsf, peaks1, peaks2) ==
    IF Len(peaks1) > 0 /\ Len(peaks2) > 0
    THEN PairPeaksFrom(tsf, peaks1, peaks2, 0, Min(Len(peaks1), Len(peaks2)))
    ELSE <<>>

EnoughDataFrom49(p1, p2) == ~(Len(p1) < MinSamples - 1 \/ Len(p2) < MinSamples - 1)

\* the early return of process_data
EnoughData(p1, p2) == ~(Len(p1) < MinSamples \/ Len(p2) < MinSamples)

\* the values process_data computes from the buffers, once past the early return
Pipeline(ts, p1, p2) ==
    LET f1  == MovingAverage(p1).val
        f2  == MovingAverage(p2).val
        tsf == TimestampsFiltered(ts)
        k1  == SystolicPeaks(f1)
        k2  == SystolicPeaks(f2)
    IN  [ppg1_filtered |-> f1, ppg2_filtered |-> f2, timestamps_filtered |-> tsf,
         ppg1_peaks |-> k1, ppg2_peaks |-> k2,
         ptt_values |-> PairPeaks(tsf, k1, k2)]

ExtendPrepends(all, new) == new \o all

ExtendOverwrites(list, values) == values

\* list.extend
Extend(list, values) == list \o values

\* save_plots and save_data: one plot and one raw-data table per run, a results
\* table only when there are transit times
Artifacts(id, ptt) ==
    {[kind |-> "plot", id |-> id], [kind |-> "raw_data", id |-> id]}
    \cup (IF ptt # <<>> THEN {[kind |-> "ptt_results", id |-> id]} ELSE {})

MasterRowsReversed(id, ptt) ==
    [k \in 1..Len(ptt) |->
        [ptt_ms |-> ptt[Len(ptt) + 1 - k], collection_id |-> id,
         timestamp |-> "this run"]]

\* the rows save_data adds to all_ptt_results.csv
MasterRows(id, ptt) ==
    [k \in 1..Len(ptt) |->
        [ptt_ms |-> ptt[k], collection_id |-> id, timestamp |-> "this run"]]

process_data ==
    IF ~EnoughData(ppg1_data, ppg2_data)
    THEN UNCHANGED <<collection_count, ptt_values, all_ptt_values, files, master_csv>>
    ELSE LET r == Pipeline(timestamps, ppg1_data, ppg2_data) IN
         /\ collection_count' = collection_count + 1
         /\ ptt_values' = IF r.ptt_values # <<>> THEN r.ptt_values ELSE ptt_values
         /\ all_ptt_values' = IF r.ptt_values # <<>>
                              THEN Extend(all_ptt_values, r.ptt_values)
                              ELSE all_ptt_values
         /\ files' = files \cup Artifacts(collection_count + 1, r.ptt_values)
         /\ master_csv' = master_csv \o MasterRows(collection_count + 1, r.ptt_values)

----------------------------------------------------------------------------
\* The serial line source: what the device can send

Waveforms == {"flat", "early", "double", "shifted", "late", "far"}

PulseCentres(w) ==
    CASE w = "flat"    -> {}
      [] w = "early"   -> {15}
      [] w = "double"  -> {10, 42}
      [] w = "shifted" -> {12, 45}
      [] w = "late"    -> {10, 45}
      [] w = "far"     -> {46}

\* reading number k (from 0) of a sensor under waveform w: a baseline with a
\* triangular pulse around each centre
Wave(w, k) ==
    LET near == {c \in PulseCentres(w) : Abs(k - c) < 5}
    IN  IF near = {} THEN 100 ELSE 150 - 10 * Abs(k - (CHOOSE c \in near : TRUE))

\* the waveform pairs (sensor 1, sensor 2) the device is placed on
Signals ==
    {<<"double", "shifted">>, <<"shifted", "early">>, <<"double", "late">>,
     <<"early", "far">>, <<"flat", "early">>}

NumField(n) == [num |-> TRUE, val |-> n]
BadField == [num |-> FALSE, val |-> 0]

START_DATA_COLLECTION == [kind |-> "START_DATA_COLLECTION", parts |-> <<>>]
END_DATA_COLLECTION == [kind |-> "END_DATA_COLLECTION", parts |-> <<>>]
DataLine(parts) == [kind |-> "data", parts |-> parts]

\* the well-formed sample the device sends next
SampleLine(sig, k) ==
    DataLine(<<NumField(k * SamplePeriod), NumField(Wave(sig[1], k)),
               NumField(Wave(sig[2], k))>>)

\* lines that are neither a marker nor three integers
MalformedLines ==
    {DataLine(<<BadField>>),
     DataLine(<<NumField(7), NumField(100), BadField>>),
     DataLine(<<NumField(7), NumField(100), NumField(100), NumField(100)>>)}

IsWellFormed(l) ==
    /\ l.kind = "data"
    /\ Len(l.parts) = 3
    /\ \A i \in 1..3 : l.parts[i].num

----------------------------------------------------------------------------
\* PTTCalculator.collect_data (script.py): one action per line read

\* all_ptt_results.csv as an earlier run of the program may have left it in
\* the output folder: absent, or holding the rows of that run
EarlierMasterTables ==
    {<<>>, <<[ptt_ms |-> 25, collection_id |-> 1, timestamp |-> "earlier run"]>>}

\* PTTCalculator.__init__, with the sensors on signal sig and the output
\* folder holding the master table master
Calculator(sig, master) ==
    /\ is_collecting = FALSE
    /\ timestamps = <<>>
    /\ ppg1_data = <<>>
    /\ ppg2_data = <<>>
    /\ ptt_values = <<>>
    /\ all_ptt_values = <<>>
    /\ collection_count = 0
    /\ line = [kind |-> "none", parts |-> <<>>]
    /\ running = TRUE
    /\ files = {}
    /\ master_csv = master
    /\ signal = sig

NewCalculator(sig) == Calculator(sig, <<>>)

NoCall == [fn |-> "none"]

\* ppg_live.py when main has started the reader thread and entered plt.show():
\* the module globals of lines 12-15, the port open, the plot lines empty
ThreadStarted ==
    /\ recording = TRUE
    /\ live_timestamps = <<>>
    /\ sensor1_values = <<>>
    /\ sensor2_values = <<>>
    /\ csv_file = [opened |-> FALSE, closed |-> FALSE, rows |-> 0]
    /\ ser_is_open = TRUE
    /\ reader = [pc |-> "open", sample |-> <<>>, read |-> 0]
    /\ plot = [pc |-> "return", sliced |-> FALSE,
               x_data |-> <<>>, y1_data |-> <<>>, y2_data |-> <<>>,
               line1 |-> [x |-> <<>>, y |-> <<>>],
               line2 |-> [x |-> <<>>, y |-> <<>>]]
    /\ main = [pc |-> "show", at_stop |-> <<>>, png |-> "none"]

Init ==
    /\ \E sig \in Signals : \E master \in EarlierMasterTables : Calculator(sig, master)
    /\ args = NoCall
    /\ ret = NoCall
    /\ ThreadStarted

StartLineKeepsTimestamps ==
    /\ running
    /\ collection_count < MaxCollections
    /\ line' = START_DATA_COLLECTION
    /\ is_collecting' = TRUE
    /\ ppg1_data' = <<>>
    /\ ppg2_data' = <<>>
    /\ signal' \in Signals
    /\ UNCHANGED <<timestamps, ptt_values, all_ptt_values, collection_count, files,
                   master_csv, running>>
    /\ UNCHANGED <<call_vars, thread_vars>>

\* line == "START_DATA_COLLECTION"; the device is on some signal for the session
StartLine ==
    /\ running
    /\ collection_count < MaxCollections
    /\ line' = START_DATA_COLLECTION
    /\ is_collecting' = TRUE
    /\ ppg1_data' = <<>>
    /\ ppg2_data' = <<>>
    /\ timestamps' = <<>>
    /\ signal' \in Signals
    /\ UNCHANGED <<ptt_values, all_ptt_values, collection_count, files, master_csv,
                   running>>
    /\ UNCHANGED <<call_vars, thread_vars>>

\* line == "END_DATA_COLLECTION"
EndLine ==
    /\ running
    /\ EnoughData(ppg1_data, ppg2_data) => collection_count < MaxCollections
    /\ line' = END_DATA_COLLECTION
    /\ is_collecting' = FALSE
    /\ process_data
    /\ UNCHANGED <<timestamps, ppg1_data, ppg2_data, signal, running>>
    /\ UNCHANGED <<call_vars, thread_vars>>

\* map(int, parts) unpacked into three names: every field is converted before
\* anything is appended; ValueError on a field that is not an integer
ParseSample(parts) ==
    IF \A i \in 1..Len(parts) : parts[i].num
    THEN [ok |-> TRUE, val |-> [i \in 1..Len(parts) |-> parts[i].val]]
    ELSE [ok |-> FALSE, val |-> <<>>]

AppendSample(v) ==
    /\ timestamps' = Append(timestamps, v[1])
    /\ ppg1_data' = Append(ppg1_data, v[2])
    /\ ppg2_data' = Append(ppg2_data, v[3])

ParseWhileCollectingUncaught(parts) ==
    IF is_collecting /\ Len(parts) = 3
    THEN IF ParseSample(parts).ok
         THEN AppendSample(ParseSample(parts).val) /\ running' = TRUE
         ELSE UNCHANGED <<timestamps, ppg1_data, ppg2_data>> /\ running' = FALSE
    ELSE UNCHANGED <<timestamps, ppg1_data, ppg2_data, running>>

ParseWhileCollectingAlways(parts) ==
    IF Len(parts) = 3
    THEN IF ParseSample(parts).ok
         THEN AppendSample(ParseSample(parts).val) /\ running' = TRUE
         ELSE UNCHANGED <<timestamps, ppg1_data, ppg2_data>> /\ running' = TRUE
    ELSE UNCHANGED <<timestamps, ppg1_data, ppg2_data, running>>

\* "if self.is_collecting: try: ... except ValueError: pass"; the loop goes on
\* (running) unless an exception leaves it
ParseWhileCollecting(parts) ==
    IF is_collecting /\ Len(parts) = 3
    THEN IF ParseSample(parts).ok
         THEN AppendSample(ParseSample(parts).val) /\ running' = TRUE
         ELSE UNCHANGED <<timestamps, ppg1_data, ppg2_data>> /\ running' = TRUE
    ELSE UNCHANGED <<timestamps, ppg1_data, ppg2_data, running>>

\* any line that is not a marker
SampleOrOtherLine ==
    /\ running
    /\ \E l \in {SampleLine(signal, Len(timestamps))} \cup MalformedLines :
        /\ IsWellFormed(l) /\ is_collecting => Len(timestamps) < MaxSamples
        /\ line' = l
        /\ ParseWhileCollecting(l.parts)
    /\ UNCHANGED <<is_collecting, ptt_values, all_ptt_values, collection_count,
                   files, master_csv, signal>>
    /\ UNCHANGED <<call_vars, thread_vars>>

\* Ctrl+C during readline(): the loop is left, the port closed, and the summary
\* plot written when the aggregate is not empty
KeyboardInterrupt ==
    /\ running
    /\ running' = FALSE
    /\ line' = [kind |-> "KeyboardInterrupt", parts |-> <<>>]
    /\ files' = IF all_ptt_values # <<>>
                THEN files \cup {[kind |-> "session_summary", id |-> 0]}
                ELSE files
    /\ UNCHANGED <<is_collecting, timestamps, ppg1_data, ppg2_data, ptt_values,
                   all_ptt_values, collection_count, master_csv, signal>>
    /\ UNCHANGED <<call_vars, thread_vars>>

Next == StartLine \/ EndLine \/ SampleOrOtherLine \/ KeyboardInterrupt

Spec == Init /\ [][Next]_vars

----------------------------------------------------------------------------
\* Claims about collect_data

\* the samples the device has sent since the start marker, as the three buffers
DeviceStream(sig, n) ==
    [timestamps |-> [k \in 1..n |-> (k - 1) * SamplePeriod],
     ppg1 |-> [k \in 1..n |-> Wave(sig[1], k - 1)],
     ppg2 |-> [k \in 1..n |-> Wave(sig[2], k - 1)]]

\* C1: an END_DATA_COLLECTION line read while COLLECTING sets the session IDLE
\* and runs the pipeline once, on the samples buffered since the last start
\* marker: with at least 50 of them collection_count goes up by one and the
\* transit times of that run are appended, in order, at the end of
\* all_ptt_values; with fewer nothing is counted or appended.
C1_EndRunsPipelineOnce ==
    [][(is_collecting /\ line' = END_DATA_COLLECTION) =>
          LET n == Len(timestamps)
              sent == DeviceStream(signal, n)
              run == Pipeline(sent.timestamps, sent.ppg1, sent.ppg2).ptt_values
          IN  /\ is_collecting' = FALSE
              /\ <<timestamps, ppg1_data, ppg2_data>>
                     = <<sent.timestamps, sent.ppg1, sent.ppg2>>
              /\ IF n >= MinSamples
                 THEN /\ collection_count' = collection_count + 1
                      /\ all_ptt_values' = all_ptt_values \o run
                 ELSE /\ collection_count' = collection_count
                      /\ all_ptt_values' = all_ptt_values]_vars

\* two sessions have been processed, one yielding two transit times and the
\* other one, and the line just read is the end marker
C1_Witness ==
    /\ line = END_DATA_COLLECTION
    /\ ~is_collecting
    /\ collection_count = 2
    /\ Len(all_ptt_values) = 3

\* C2: a START_DATA_COLLECTION line sets is_collecting and empties the three
\* buffers whatever the state before, and leaves all_ptt_values and
\* collection_count as they were.
C2_StartClearsBuffers ==
    [][line' = START_DATA_COLLECTION =>
          /\ is_collecting' = TRUE
          /\ timestamps' = <<>> /\ ppg1_data' = <<>> /\ ppg2_data' = <<>>
          /\ all_ptt_values' = all_ptt_values
          /\ collection_count' = collection_count]_vars

\* a start marker has just been read after a processed session: the buffers
\* are empty again and the aggregate still holds that session's values
C2_Witness ==
    /\ line = START_DATA_COLLECTION
    /\ is_collecting
    /\ timestamps = <<>> /\ ppg1_data = <<>> /\ ppg2_data = <<>>
    /\ collection_count = 1
    /\ all_ptt_values # <<>>

\* C3: a line that is no marker, read while IDLE, changes neither the buffers
\* nor the aggregate nor the session state, well-formed sample or not.
C3_IdleLinesDiscarded ==
    [][(~is_collecting /\ line'.kind = "data") =>
          UNCHANGED <<timestamps, ppg1_data, ppg2_data, all_ptt_values,
                      collection_count, is_collecting>>]_vars

\* a well-formed sample has just been read while IDLE, after a session
C3_Witness ==
    /\ ~is_collecting
    /\ IsWellFormed(line)
    /\ collection_count = 1

----------------------------------------------------------------------------
\* pwv_script.py: calculate_ptt and the velocity step of process_csv_file

calculate_ptt_abs(ts, indices1, indices2) == PairPeaks(ts, indices1, indices2)

\* the loop of calculate_ptt from pair i on: signed difference
RECURSIVE calculate_ptt_from(_, _, _, _, _)
calculate_ptt_from(ts, indices1, indices2, i, min_indices) ==
    IF i >= min_indices THEN <<>>
    ELSE LET ptt == At(ts, At(indices2, i)) - At(ts, At(indices1, i))
         IN  (IF ValidPTT(ptt) THEN <<ptt>> ELSE <<>>)
                 \o calculate_ptt_from(ts, indices1, indices2, i + 1, min_indices)

calculate_ptt(ts, indices1, indices2) ==
    calculate_ptt_from(ts, indices1, indices2, 0, Min(Len(indices1), Len(indices2)))

\* [distance_m / (ptt / 1000.0) for ptt in ptt_list]: the list, or
\* ZeroDivisionError when a divisor is 0
RECURSIVE VelocitiesFrom(_, _, _)
VelocitiesFrom(distance_m, ptt_list, k) ==
    IF k > Len(ptt_list) THEN [raised |-> "none", val |-> <<>>]
    ELSE LET q == RatDiv(distance_m, Rat(ptt_list[k], 1000))
             rest == VelocitiesFrom(distance_m, ptt_list, k + 1)
         IN  IF ~q.ok THEN [raised |-> "ZeroDivisionError", val |-> <<>>]
             ELSE IF rest.raised # "none" THEN rest
             ELSE [raised |-> "none", val |-> <<q.val>> \o rest.val]

pulse_wave_velocity_nonnegative(ptt_list, distance_cm) ==
    IF distance_cm >= 0 /\ ptt_list # <<>>
    THEN VelocitiesFrom(Rat(distance_cm, 100), ptt_list, 1)
    ELSE [raised |-> "none", val |-> <<>>]

\* "if distance_cm > 0: ... if ptt_systolic: pwv_systolic = [...]"
pulse_wave_velocity(ptt_list, distance_cm) ==
    IF distance_cm > 0 /\ ptt_list # <<>>
    THEN VelocitiesFrom(Rat(distance_cm, 100), ptt_list, 1)
    ELSE [raised |-> "none", val |-> <<>>]

\* Inputs of the estimators: a timestamp sequence, not necessarily increasing,
\* and two feature-index sequences into it of up to MaxFeatures entries each
TimestampSeqs == {<<0, 150, 250>>, <<0, 1, 300>>, <<400, 0, 100>>}

RECURSIVE SeqsUpTo(_, _)
SeqsUpTo(S, n) ==
    IF n = 0 THEN {<<>>}
    ELSE LET shorter == SeqsUpTo(S, n - 1)
         IN  shorter \cup {Append(q, x) : q \in {r \in shorter : Len(r) = n - 1}, x \in S}

Distances == {-5, 0, 7, default_distance_cm}

InitEstimator ==
    /\ NewCalculator(<<"flat", "early">>)
    /\ \E ts \in TimestampSeqs :
       \E i1 \in SeqsUpTo(0..(Len(ts) - 1), MaxFeatures) :
       \E i2 \in SeqsUpTo(0..(Len(ts) - 1), MaxFeatures) :
           args = [fn |-> "calculate_ptt", timestamps |-> ts,
                   indices1 |-> i1, indices2 |-> i2]
    /\ ret = NoCall
    /\ ThreadStarted

\* the transit times of one pair of index sequences, by calculate_ptt
\* (pwv_script.py) and by the pairing loop of process_data (script.py)
CalculatePTT ==
    /\ args.fn = "calculate_ptt"
    /\ ret = NoCall
    /\ ret' = [fn |-> "calculate_ptt",
               ptt |-> calculate_ptt(args.timestamps, args.indices1, args.indices2),
               ptt_live |-> PairPeaks(args.timestamps, args.indices1, args.indices2)]
    /\ UNCHANGED args
    /\ UNCHANGED <<live_vars, thread_vars>>

\* the velocity step of process_csv_file on those transit times
ComputePWV ==
    /\ ret.fn = "calculate_ptt"
    /\ \E d \in Distances :
        LET v == pulse_wave_velocity(ret.ptt, d)
        IN  ret' = [fn |-> "pwv", ptt |-> ret.ptt, ptt_live |-> ret.ptt_live,
                    distance_cm |-> d, raised |-> v.raised, pwv |-> v.val]
    /\ UNCHANGED args
    /\ UNCHANGED <<live_vars, thread_vars>>

NextEstimator == CalculatePTT \/ ComputePWV

SpecEstimator == InitEstimator /\ [][NextEstimator]_vars

----------------------------------------------------------------------------
\* Claims about the Transit-Time and Velocity Estimators

InRange(s) == \A k \in 1..Len(s) : 0 < s[k] /\ s[k] < 300

\* C5: whatever the index sequences and timestamps, calculate_ptt and the
\* pairing loop of process_data emit only values v with 0 < v < 300, and at
\* most min(len(indices1), len(indices2)) of them.
C5_TransitTimesInRange ==
    ret.fn = "calculate_ptt" =>
        LET most == Min(Len(args.indices1), Len(args.indices2))
        IN  /\ InRange(ret.ptt) /\ Len(ret.ptt) <= most
            /\ InRange(ret.ptt_live) /\ Len(ret.ptt_live) <= most

\* three pairs were paired; calculate_ptt kept fewer than the pairing loop of
\* process_data, so some difference was out of range for one and not the other
C5_Witness ==
    /\ ret.fn = "calculate_ptt"
    /\ Len(args.indices1) = 3 /\ Len(args.indices2) = 2
    /\ Len(ret.ptt) = 1
    /\ Len(ret.ptt_live) = 2

\* the candidates of calculate_ptt: the signed difference of each position
Candidates(a) ==
    [i \in 1..Min(Len(a.indices1), Len(a.indices2)) |->
        a.timestamps[a.indices2[i] + 1] - a.timestamps[a.indices1[i] + 1]]

\* C6: calculate_ptt pairs by position only; its result is the subsequence, in
\* order, of the signed differences timestamps[indices2[i]] -
\* timestamps[indices1[i]], i < min(len1, len2), that lie strictly between 0
\* and 300: a pair with channel 2 before or at channel 1 is dropped and later
\* positions keep their pairing.
C6_PositionalPairing ==
    ret.fn = "calculate_ptt" =>
        ret.ptt = SelectSeq(Candidates(args), LAMBDA v : 0 < v /\ v < 300)

\* of three pairs the first has channel 2 before channel 1 and is dropped, the
\* other two are kept
C6_Witness ==
    /\ ret.fn = "calculate_ptt"
    /\ Len(Candidates(args)) = 3
    /\ Candidates(args)[1] < 0
    /\ ret.ptt = <<Candidates(args)[2], Candidates(args)[3]>>

\* C7: the VelocitySet has one entry per transit time, in order, entry i being
\* (distance_cm / 100) / (transit_i / 1000) when distance_cm > 0, and is empty
\* when distance_cm <= 0; no division by zero happens.
C7_VelocityPerTransitTime ==
    ret.fn = "pwv" =>
        /\ ret.raised = "none"
        /\ IF ret.distance_cm > 0
           THEN /\ Len(ret.pwv) = Len(ret.ptt)
                /\ \A i \in 1..Len(ret.ptt) :
                     /\ ret.ptt[i] # 0
                     /\ ret.pwv[i].den > 0
                     /\ ret.pwv[i].num * 100 * ret.ptt[i]
                            = ret.pwv[i].den * ret.distance_cm * 1000
           ELSE ret.pwv = <<>>

\* 20 cm with transit times 150 ms and 100 ms: 4/3 m/s and 2 m/s
C7_Witness ==
    /\ ret.fn = "pwv"
    /\ ret.distance_cm = 20
    /\ ret.ptt = <<150, 100>>
    /\ ret.pwv = <<[num |-> 4, den |-> 3], [num |-> 2, den |-> 1]>>

----------------------------------------------------------------------------
\* pwv_script.py: process_csv_file

\* np.gradient(x): ValueError when x has fewer than edge_order + 1 = 2 elements
GradientRaises(x) == Len(x) < 2

\* the diastolic search after the systolic peaks from position k on: the first
\* local maximum of x[peak+10 : min(peak+100, len(x)-1)] at least 0.3 * x[peak]
\* high, when there is one
RECURSIVE DiastolicPeaksFrom(_, _, _)
DiastolicPeaksFrom(x, systolic, k) ==
    IF k > Len(systolic) THEN <<>>
    ELSE LET peak == systolic[k]
             search_start == peak + search_offset
             search_end == Min(peak + search_span, Len(x) - 1)
             rest == DiastolicPeaksFrom(x, systolic, k + 1)
         IN  IF search_start >= search_end THEN rest
             ELSE LET diastolic_candidates ==
                          FindPeaks(Slice(x, search_start, search_end),
                                    HeightNum * At(x, peak), HeightDen, 0)
                  IN  IF Len(diastolic_candidates) > 0
                      THEN <<search_start + diastolic_candidates[1]>> \o rest
                      ELSE rest

DiastolicPeaksFromSecond(x, systolic) == DiastolicPeaksFrom(x, systolic, 2)

DiastolicPeaks(x, systolic) == DiastolicPeaksFrom(x, systolic, 1)

\* the locals of process_csv_file not yet assigned
NoLocals ==
    [ppg1_filtered |-> <<>>, ppg2_filtered |-> <<>>, timestamps_filtered |-> <<>>,
     ppg1_systolic_peaks |-> <<>>, ppg2_systolic_peaks |-> <<>>,
     ppg1_diastolic_peaks |-> <<>>, ppg2_diastolic_peaks |-> <<>>,
     ptt_systolic |-> <<>>, ptt_diastolic |-> <<>>,
     pwv_systolic |-> <<>>, pwv_diastolic |-> <<>>]

\* how a call of process_csv_file ends: the exception that left it (or "none"),
\* the statement that raised it, the locals assigned by then, the files written
Outcome(raised, at, locals, written) ==
    [fn |-> "process_csv_file", raised |-> raised, at |-> at, locals |-> locals,
     files |-> written]

\* create_plots and save_results: the files of one analysis
AnalysisFiles(l) ==
    {"ppg_signals.png", "results.csv"}
    \cup (IF l.ptt_systolic # <<>> \/ l.ptt_diastolic # <<>> THEN {"ptt_values.png"} ELSE {})
    \cup (IF l.pwv_systolic # <<>> \/ l.pwv_diastolic # <<>> THEN {"pwv_values.png"} ELSE {})

\* process_csv_file on a table that pd.read_csv loads
process_csv_file(data, distance_cm) ==
    LET c1 == MovingAverage(data.ppg1)
        c2 == MovingAverage(data.ppg2)
    IN  IF ~c1.ok \/ ~c2.ok THEN Outcome("ValueError", "np.convolve", NoLocals, {})
        ELSE
    LET filtered == [NoLocals EXCEPT !.ppg1_filtered = c1.val,
                                     !.ppg2_filtered = c2.val,
                                     !.timestamps_filtered =
                                         TimestampsFiltered(data.timestamp_ms)]
    IN  IF GradientRaises(c1.val) \/ GradientRaises(c2.val)
        THEN Outcome("ValueError", "np.gradient", filtered, {})
        ELSE
    LET s1 == SystolicPeaks(c1.val)
        s2 == SystolicPeaks(c2.val)
        d1 == DiastolicPeaks(c1.val, s1)
        d2 == DiastolicPeaks(c2.val, s2)
        ptt_systolic == calculate_ptt(filtered.timestamps_filtered, s1, s2)
        ptt_diastolic == calculate_ptt(filtered.timestamps_filtered, d1, d2)
        pwv_systolic == pulse_wave_velocity(ptt_systolic, distance_cm)
        pwv_diastolic == pulse_wave_velocity(ptt_diastolic, distance_cm)
        computed == [filtered EXCEPT !.ppg1_systolic_peaks = s1,
                                     !.ppg2_systolic_peaks = s2,
                                     !.ppg1_diastolic_peaks = d1,
                                     !.ppg2_diastolic_peaks = d2,
                                     !.ptt_systolic = ptt_systolic,
                                     !.ptt_diastolic = ptt_diastolic,
                                     !.pwv_systolic = pwv_systolic.val,
                                     !.pwv_diastolic = pwv_diastolic.val]
    IN  IF pwv_systolic.raised # "none" \/ pwv_diastolic.raised # "none"
        THEN Outcome("ZeroDivisionError", "pwv", computed, {})
        \* axes.plot(timestamps, ppg1) wants both of one length
        ELSE IF Len(computed.timestamps_filtered) # Len(computed.ppg1_filtered)
        THEN Outcome("ValueError", "create_plots", computed, {})
        ELSE Outcome("none", "return", computed, AnalysisFiles(computed))

\* Inputs of the offline flow: raw-data tables of up to MaxRows rows
Levels == {90, 100, 120}

RawTables ==
    UNION {{[timestamp_ms |-> [k \in 1..n |-> (k - 1) * SamplePeriod],
             ppg1 |-> p1, ppg2 |-> p2] :
               p1 \in [1..n -> Levels],
               p2 \in {[k \in 1..n |-> 100], [k \in 1..n |-> 100 + 10 * (k % 3)]}} :
           n \in 0..MaxRows}

InitOffline ==
    /\ NewCalculator(<<"flat", "early">>)
    /\ \E data \in RawTables : \E d \in {0, default_distance_cm} :
           args = [fn |-> "process_csv_file", data |-> data, distance_cm |-> d]
    /\ ret = NoCall
    /\ ThreadStarted

ProcessCsvFile ==
    /\ args.fn = "process_csv_file"
    /\ ret = NoCall
    /\ ret' = process_csv_file(args.data, args.distance_cm)
    /\ UNCHANGED args
    /\ UNCHANGED <<live_vars, thread_vars>>

NextOffline == ProcessCsvFile

SpecOffline == InitOffline /\ [][NextOffline]_vars

----------------------------------------------------------------------------
\* Claims about the Signal Conditioner and the empty session

\* the sum of raw samples [i, i + w), i from 0
WindowSum(raw, i, w) == SumSeq(SubSeq(raw, i + 1, i + w))

\* filtered is the moving average of raw over windows of 5 (a filtered element
\* is in units of 1/5, so it is the mean when it equals the window's sum)
IsMovingAverage(filtered, raw) ==
    /\ Len(filtered) = Len(raw) - 5 + 1
    /\ \A i \in 0..(Len(filtered) - 1) : At(filtered, i) = WindowSum(raw, i, 5)

\* C8: for a sample sequence of length n >= 5 the Signal Conditioner gives a
\* filtered sequence of length n - 5 + 1 whose element i is the mean of raw
\* samples [i, i + 5), and a timestamp sequence of that length whose element i
\* is the raw timestamp at index i + 5 - 1.
C8_ConditionerOutput ==
    (ret.fn = "process_csv_file" /\ Len(args.data.timestamp_ms) >= 5) =>
        LET l == ret.locals
            n == Len(args.data.timestamp_ms)
        IN  /\ IsMovingAverage(l.ppg1_filtered, args.data.ppg1)
            /\ IsMovingAverage(l.ppg2_filtered, args.data.ppg2)
            /\ Len(l.timestamps_filtered) = n - 5 + 1
            /\ \A i \in 0..(n - 5) :
                   At(l.timestamps_filtered, i) = At(args.data.timestamp_ms, i + 4)

\* six rows whose ppg1 windows differ: two filtered values, unequal
C8_Witness ==
    /\ ret.fn = "process_csv_file"
    /\ Len(args.data.timestamp_ms) = 6
    /\ Len(ret.locals.ppg1_filtered) = 2
    /\ ret.locals.ppg1_filtered[1] # ret.locals.ppg1_filtered[2]
    /\ ret.locals.timestamps_filtered = <<4 * SamplePeriod, 5 * SamplePeriod>>

\* C9 as stated: with fewer than 5 samples the Signal Conditioner yields an
\* empty filtered sequence and an empty filtered timestamp sequence, and no
\* exception.
C9_ShortInputEmpty ==
    (ret.fn = "process_csv_file" /\ Len(args.data.timestamp_ms) < 5) =>
        /\ ret.at # "np.convolve"
        /\ ret.locals.ppg1_filtered = <<>>
        /\ ret.locals.ppg2_filtered = <<>>
        /\ ret.locals.timestamps_filtered = <<>>

\* C10 as stated: for a session of 0 samples every stage gives an empty result,
\* no exception is raised, in the live and in the offline flow, and no file
\* with less than its header is written.
C10_EmptySession ==
    /\ (ret.fn = "process_csv_file" /\ Len(args.data.timestamp_ms) = 0) =>
           /\ ret.raised = "none"
           /\ ret.locals = NoLocals
    /\ (line = END_DATA_COLLECTION /\ timestamps = <<>>) =>
           /\ running
           /\ \A f \in files :
                  f.kind # "session_summary" => f.id \in 1..collection_count

----------------------------------------------------------------------------
\* The Peak Detector and the Foot Detector on one filtered series
\* (pwv_script.py 41-79; script.py 69-72 for the systolic peaks)

\* Inputs: filtered series of SeriesLen values, a baseline with a spike of some
\* height at each of a few places, one sample wide or two (a plateau)
SpikePlaces == <<2, 8, 12, 15, 34, 42>>
SpikeHeights == {0, 1, 30, 50}

Series(heights, width) ==
    [k \in 1..SeriesLen |->
        LET hit == {q \in 1..Len(SpikePlaces) :
                       (k - 1) - SpikePlaces[q] \in 0..(width - 1)}
        IN  IF hit = {} THEN 10 ELSE 10 + heights[CHOOSE q \in hit : TRUE]]

FilteredSeries ==
    {Series(h, w) : h \in [1..Len(SpikePlaces) -> SpikeHeights], w \in {1, 2}}

InitDetectors ==
    /\ NewCalculator(<<"flat", "early">>)
    /\ \E x \in FilteredSeries : args = [fn |-> "find_peaks", x |-> x]
    /\ ret = NoCall
    /\ ThreadStarted

\* find_peaks(ppg1_filtered, height=np.mean(ppg1_filtered), distance=30)
DetectSystolic ==
    /\ args.fn = "find_peaks"
    /\ ret = NoCall
    /\ ret' = [fn |-> "systolic", peaks |-> SystolicPeaks(args.x), feet |-> <<>>]
    /\ UNCHANGED args
    /\ UNCHANGED <<live_vars, thread_vars>>

\* the loop over the systolic peaks that collects the diastolic peaks
DetectDiastolic ==
    /\ ret.fn = "systolic"
    /\ ret' = [fn |-> "diastolic", peaks |-> ret.peaks,
               feet |-> DiastolicPeaks(args.x, ret.peaks)]
    /\ UNCHANGED args
    /\ UNCHANGED <<live_vars, thread_vars>>

NextDetectors == DetectSystolic \/ DetectDiastolic

SpecDetectors == InitDetectors /\ [][NextDetectors]_vars

\* index j (from 0) is the middle of a run of equal samples of s that is
\* strictly higher than the sample before it and the sample after it, the
\* first and last sample of s being no part of it
IsLocalMaximum(s, j) ==
    \E l \in 1..j : \E r \in {2 * j - l, 2 * j - l + 1} :
        /\ r <= Len(s) - 2
        /\ At(s, l - 1) < At(s, l)
        /\ At(s, r + 1) < At(s, r)
        /\ \A k \in l..r : At(s, k) = At(s, j)

\* C11: the systolic PeakSet (min_height the mean of the whole series,
\* min_distance 30) is strictly increasing, every index in it is a local
\* maximum whose value is at least the mean, any two indices are 30 or more
\* apart, and a series with no qualifying maximum gives the empty PeakSet.
C11_PeakSet ==
    ret.fn \in {"systolic", "diastolic"} =>
        LET x == args.x
            peaks == ret.peaks
            IsQualifying(j) == IsLocalMaximum(x, j) /\ At(x, j) * Len(x) >= SumSeq(x)
        IN  /\ \A a, b \in 1..Len(peaks) : a < b => peaks[b] - peaks[a] >= 30
            /\ \A a \in 1..Len(peaks) :
                   peaks[a] \in 0..(Len(x) - 1) /\ IsQualifying(peaks[a])
            /\ (\A j \in 0..(Len(x) - 1) : ~IsQualifying(j)) => peaks = <<>>
            /\ (\E j \in 0..(Len(x) - 1) : IsQualifying(j)) => peaks # <<>>

\* three maxima qualify; two are kept and the one between them, closer than
\* 30 to a higher one, is not
C11_Witness ==
    /\ ret.fn = "systolic"
    /\ Len(ret.peaks) = 2
    /\ Len(SelectByHeight(args.x, LocalMaxima(args.x), SumSeq(args.x), Len(args.x))) >= 3

\* the feet that qualify for peak p of x: the local maxima f of the subrange
\* [p + 10, min(p + 100, n - 1)), taken as a series of its own, with
\* value(f) >= 0.3 * value(p)
QualifyingFeet(x, p) ==
    LET first == p + 10
        end == Min(p + 100, Len(x) - 1)
    IN  {f \in first..(end - 1) :
            /\ IsLocalMaximum(SubSeq(x, first + 1, end), f - first)
            /\ 10 * At(x, f) >= 3 * At(x, p)}

\* the foot of each peak from position k on that has one: its lowest
\* qualifying foot
RECURSIVE LowestFeetFrom(_, _, _)
LowestFeetFrom(x, peaks, k) ==
    IF k > Len(peaks) THEN <<>>
    ELSE LET q == QualifyingFeet(x, peaks[k])
         IN  (IF q = {} THEN <<>> ELSE <<CHOOSE f \in q : \A g \in q : f <= g>>)
                 \o LowestFeetFrom(x, peaks, k + 1)

----------------------------------------------------------------------------
\* The Session Aggregator over whole runs of collect_data (script.py 207-257)

IsPrefix(s, t) == Len(s) <= Len(t) /\ SubSeq(t, 1, Len(s)) = s

\* C13: all_ptt_values is append-only: over every step (start marker, end
\* marker, sample or other line, interrupt) the content before the step is a
\* prefix of the content after it, so the content of every earlier state is a
\* prefix of the content of every later one; and a start marker changes none
\* of the aggregate, the last transit times, the count, the files written and
\* the master table: it clears the per-session buffers only.
C13_AggregateAppendOnly ==
    [][/\ IsPrefix(all_ptt_values, all_ptt_values')
       /\ line' = START_DATA_COLLECTION =>
              UNCHANGED <<all_ptt_values, ptt_values, collection_count, files,
                          master_csv>>]_vars

\* a second session has added its one transit time behind the two of the first
C13_Witness ==
    /\ collection_count = 2
    /\ ptt_values = <<30>>
    /\ all_ptt_values = <<20, 30, 30>>

\* C14: an end marker read with fewer than 50 buffered samples skips the whole
\* pipeline: the count, the aggregate, the last transit times, the files
\* written and the master table stay as they were and the loop keeps running
\* (no exception leaves it); and a start marker read right after it opens a
\* session with empty buffers as usual.
C14_ShortSessionSkipped ==
    [][/\ (line' = END_DATA_COLLECTION /\ Len(timestamps) < MinSamples) =>
              /\ UNCHANGED <<collection_count, all_ptt_values, ptt_values, files,
                             master_csv>>
              /\ running'
       /\ (/\ line = END_DATA_COLLECTION
           /\ Len(timestamps) < MinSamples
           /\ line' = START_DATA_COLLECTION) =>
              /\ is_collecting'
              /\ timestamps' = <<>> /\ ppg1_data' = <<>> /\ ppg2_data' = <<>>]_vars

\* the end marker of a session of 49 samples has been read: nothing was counted
\* or written, the loop is running and a start marker can be read next
C14_Witness ==
    /\ line = END_DATA_COLLECTION
    /\ Len(timestamps) = MinSamples - 1
    /\ running
    /\ collection_count = 0
    /\ files = {}
    /\ ENABLED StartLine

\* the rows of the master table written by this run of the program
ThisRunRows(table) == SelectSeq(table, LAMBDA r : r.timestamp = "this run")

\* C15: the master table is only ever extended: its rows before a step are,
\* unmodified and in order, the first rows after it.  When a session with at
\* least one valid transit time is saved and the table already has rows, the
\* rewritten table is those rows followed by one row per transit time of the
\* session, in order and under the session's collection id, so its row count is
\* the sum of the two.  After any sequence of sessions the rows written by this
\* run carry, in order, exactly the transit times of all_ptt_values.
C15_MasterTable ==
    [][LET run == Pipeline(timestamps, ppg1_data, ppg2_data).ptt_values
           mine == ThisRunRows(master_csv')
       IN  /\ IsPrefix(master_csv, master_csv')
           /\ (/\ line' = END_DATA_COLLECTION
               /\ EnoughData(ppg1_data, ppg2_data)
               /\ run # <<>>
               /\ master_csv # <<>>) =>
                  /\ Len(master_csv') = Len(master_csv) + Len(run)
                  /\ \A k \in 1..Len(run) :
                         LET row == master_csv'[Len(master_csv) + k]
                         IN  /\ row.ptt_ms = run[k]
                             /\ row.collection_id = collection_count'
           /\ [k \in 1..Len(mine) |-> mine[k].ptt_ms] = all_ptt_values']_vars

\* the table left by an earlier run has had the rows of two sessions of this
\* run appended, two rows and then one
C15_Witness ==
    /\ Len(master_csv) = 4
    /\ master_csv[1].timestamp = "earlier run"
    /\ master_csv[3].collection_id = 1
    /\ master_csv[4].collection_id = 2
    /\ all_ptt_values = <<20, 30, 30>>

\* C18: an end marker read while the session is IDLE (before any start marker,
\* or right after another end marker) does not run the pipeline: it leaves
\* collection_count, all_ptt_values, the files written and the master table
\* as they were, so the transit times of a session are appended once only.
C18_IdleEndIgnored ==
    [][(~is_collecting /\ line' = END_DATA_COLLECTION) =>
          UNCHANGED <<collection_count, all_ptt_values, files, master_csv>>]_vars

----------------------------------------------------------------------------
\* ppg_live.py: the reader thread (read_serial_data), the render callback
\* (update_plot, run by the event loop of the main thread) and the shutdown
\* of main.  One action per statement that reads or writes shared state; the
\* interpreter may switch threads between any two of them.

\* display_limit of update_plot, 500 in the source, scaled to the model's
\* sample counts; MaxLive samples are sent by the device
display_limit == 2
MaxLive == 3

\* the k-th sample line of the device: the three fields name the sample
LiveSampleLine(k) ==
    DataLine(<<NumField(k * SamplePeriod), NumField(100 + k), NumField(200 + k)>>)

\* s[-n:]
LastItems(s, n) == IF Len(s) <= n THEN s ELSE SubSeq(s, Len(s) - n + 1, Len(s))

\* the daemon reader thread runs only while the process does
ProcessAlive == main.pc # "exited"

ReaderFrame == UNCHANGED <<live_vars, call_vars, ser_is_open, plot, main, recording>>

\* csv_file = open(csv_path, 'w'); the header row
ReaderOpenCsv ==
    /\ ProcessAlive
    /\ reader.pc = "open"
    /\ csv_file' = [opened |-> TRUE, closed |-> FALSE, rows |-> 1]
    /\ reader' = [reader EXCEPT !.pc = "while"]
    /\ UNCHANGED <<live_timestamps, sensor1_values, sensor2_values>>
    /\ ReaderFrame

ReaderWhileTrue ==
    /\ ProcessAlive
    /\ reader.pc = "while"
    /\ reader' = [reader EXCEPT !.pc = "readline"]
    /\ UNCHANGED <<live_timestamps, sensor1_values, sensor2_values, csv_file>>
    /\ ReaderFrame

\* while recording:
ReaderWhile ==
    /\ ProcessAlive
    /\ reader.pc = "while"
    /\ reader' = [reader EXCEPT !.pc = IF recording THEN "readline" ELSE "finally"]
    /\ UNCHANGED <<live_timestamps, sensor1_values, sensor2_values, csv_file>>
    /\ ReaderFrame

\* line = ser.readline().decode('utf-8').strip(), split and converted: three
\* integers go on to the appends; ValueError is passed over and any other
\* field count ignored (an empty line after the 1 s timeout is one field);
\* bytes that do not decode, or a port closed by main, raise into the outer
\* "except Exception" and the loop is left
ReaderReadline ==
    /\ ProcessAlive
    /\ reader.pc = "readline"
    /\ \/ /\ ser_is_open
          /\ \E l \in (IF reader.read < MaxLive
                       THEN {LiveSampleLine(reader.read + 1)} ELSE {})
                      \cup MalformedLines :
                reader' = IF Len(l.parts) = 3 /\ ParseSample(l.parts).ok
                          THEN [pc |-> "append_timestamp",
                                sample |-> ParseSample(l.parts).val,
                                read |-> reader.read + 1]
                          ELSE [reader EXCEPT !.pc = "while"]
       \/ reader' = [reader EXCEPT !.pc = "finally"]
    /\ UNCHANGED <<live_timestamps, sensor1_values, sensor2_values, csv_file>>
    /\ ReaderFrame

\* timestamps.append(timestamp)
ReaderAppendTimestamp ==
    /\ ProcessAlive
    /\ reader.pc = "append_timestamp"
    /\ live_timestamps' = Append(live_timestamps, reader.sample[1])
    /\ reader' = [reader EXCEPT !.pc = "append_sensor1"]
    /\ UNCHANGED <<sensor1_values, sensor2_values, csv_file>>
    /\ ReaderFrame

\* sensor1_values.append(sensor1)
ReaderAppendSensor1 ==
    /\ ProcessAlive
    /\ reader.pc = "append_sensor1"
    /\ sensor1_values' = Append(sensor1_values, reader.sample[2])
    /\ reader' = [reader EXCEPT !.pc = "append_sensor2"]
    /\ UNCHANGED <<live_timestamps, sensor2_values, csv_file>>
    /\ ReaderFrame

\* sensor2_values.append(sensor2)
ReaderAppendSensor2 ==
    /\ ProcessAlive
    /\ reader.pc = "append_sensor2"
    /\ sensor2_values' = Append(sensor2_values, reader.sample[3])
    /\ reader' = [reader EXCEPT !.pc = "writerow"]
    /\ UNCHANGED <<live_timestamps, sensor1_values, csv_file>>
    /\ ReaderFrame

\* csv_writer.writerow([timestamp, sensor1, sensor2])
ReaderWriteRow ==
    /\ ProcessAlive
    /\ reader.pc = "writerow"
    /\ csv_file' = [csv_file EXCEPT !.rows = @ + 1]
    /\ reader' = [reader EXCEPT !.pc = "while", !.sample = <<>>]
    /\ UNCHANGED <<live_timestamps, sensor1_values, sensor2_values>>
    /\ ReaderFrame

\* finally: if csv_file and not csv_file.closed: csv_file.close()
ReaderFinally ==
    /\ ProcessAlive
    /\ reader.pc = "finally"
    /\ csv_file' = [csv_file EXCEPT !.closed = TRUE]
    /\ reader' = [reader EXCEPT !.pc = "done"]
    /\ UNCHANGED <<live_timestamps, sensor1_values, sensor2_values>>
    /\ ReaderFrame

PlotFrame == UNCHANGED <<live_vars, call_vars, csv_file, ser_is_open, reader, main,
                         recording>>

\* the timer of FuncAnimation calls update_plot while main is in plt.show():
\* if len(timestamps) > 0, else straight to the return
PlotIfLen ==
    /\ main.pc = "show"
    /\ plot.pc = "return"
    /\ plot' = IF Len(live_timestamps) > 0
               THEN [plot EXCEPT !.pc = "if_limit"]
               ELSE plot
    /\ UNCHANGED <<live_timestamps, sensor1_values, sensor2_values>>
    /\ PlotFrame

\* if len(timestamps) <= display_limit: the three names are bound to the
\* shared lists themselves (no copy is taken); else the slices follow
PlotIfLimit ==
    /\ plot.pc = "if_limit"
    /\ plot' = IF Len(live_timestamps) <= display_limit
               THEN [plot EXCEPT !.pc = "set_line1", !.sliced = FALSE]
               ELSE [plot EXCEPT !.pc = "slice_timestamps", !.sliced = TRUE]
    /\ UNCHANGED <<live_timestamps, sensor1_values, sensor2_values>>
    /\ PlotFrame

PlotSliceTimestampsTrims ==
    /\ plot.pc = "slice_timestamps"
    /\ plot' = [plot EXCEPT !.pc = "slice_sensor1",
                            !.x_data = LastItems(live_timestamps, display_limit)]
    /\ live_timestamps' = LastItems(live_timestamps, display_limit)
    /\ UNCHANGED <<sensor1_values, sensor2_values>>
    /\ PlotFrame

\* x_data = timestamps[-display_limit:]
PlotSliceTimestamps ==
    /\ plot.pc = "slice_timestamps"
    /\ plot' = [plot EXCEPT !.pc = "slice_sensor1",
                            !.x_data = LastItems(live_timestamps, display_limit)]
    /\ UNCHANGED <<live_timestamps, sensor1_values, sensor2_values>>
    /\ PlotFrame

\* y1_data = sensor1_values[-display_limit:]
PlotSliceSensor1 ==
    /\ plot.pc = "slice_sensor1"
    /\ plot' = [plot EXCEPT !.pc = "slice_sensor2",
                            !.y1_data = LastItems(sensor1_values, display_limit)]
    /\ UNCHANGED <<live_timestamps, sensor1_values, sensor2_values>>
    /\ PlotFrame

\* y2_data = sensor2_values[-display_limit:]
PlotSliceSensor2 ==
    /\ plot.pc = "slice_sensor2"
    /\ plot' = [plot EXCEPT !.pc = "set_line1",
                            !.y2_data = LastItems(sensor2_values, display_limit)]
    /\ UNCHANGED <<live_timestamps, sensor1_values, sensor2_values>>
    /\ PlotFrame

\* what the names x_data, y1_data, y2_data hold when they are used
XData == IF plot.sliced THEN plot.x_data ELSE live_timestamps
Y1Data == IF plot.sliced THEN plot.y1_data ELSE sensor1_values
Y2Data == IF plot.sliced THEN plot.y2_data ELSE sensor2_values

\* line1.set_data(x_data, y1_data): the line takes the two sequences
PlotSetLine1 ==
    /\ plot.pc = "set_line1"
    /\ plot' = [plot EXCEPT !.pc = "set_line2",
                            !.line1 = [x |-> XData, y |-> Y1Data]]
    /\ UNCHANGED <<live_timestamps, sensor1_values, sensor2_values>>
    /\ PlotFrame

\* line2.set_data(x_data, y2_data), the axis limits (reads only) and the return
PlotSetLine2 ==
    /\ plot.pc = "set_line2"
    /\ plot' = [plot EXCEPT !.pc = "return", !.sliced = FALSE,
                            !.x_data = <<>>, !.y1_data = <<>>, !.y2_data = <<>>,
                            !.line2 = [x |-> XData, y |-> Y2Data]]
    /\ UNCHANGED <<live_timestamps, sensor1_values, sensor2_values>>
    /\ PlotFrame

MainFrame == UNCHANGED <<live_vars, call_vars, csv_file, reader, plot,
                         live_timestamps, sensor1_values, sensor2_values>>

\* the window is closed or Ctrl+C arrives; finally: recording = False.
\* at_stop keeps the lengths of the three lists at that moment.
MainStop ==
    /\ main.pc = "show"
    /\ plot.pc = "return"
    /\ recording' = FALSE
    /\ main' = [main EXCEPT !.pc = "join",
                            !.at_stop = <<Len(live_timestamps), Len(sensor1_values),
                                          Len(sensor2_values)>>]
    /\ UNCHANGED ser_is_open
    /\ MainFrame

\* if serial_thread.is_alive(): serial_thread.join(timeout=1.0): main goes on
\* when the reader has finished or when the second is over
MainJoin ==
    /\ main.pc = "join"
    /\ main' = [main EXCEPT !.pc = "close_serial"]
    /\ UNCHANGED <<recording, ser_is_open>>
    /\ MainFrame

\* if ser.is_open: ser.close()
MainCloseSerial ==
    /\ main.pc = "close_serial"
    /\ ser_is_open' = FALSE
    /\ main' = [main EXCEPT !.pc = "save_plot"]
    /\ UNCHANGED recording
    /\ MainFrame

\* the final plot, when there are timestamps: plt.plot raises ValueError on
\* sequences of different lengths; then main returns and the process ends
MainSavePlot ==
    /\ main.pc = "save_plot"
    /\ main' = [main EXCEPT
                   !.pc = "exited",
                   !.png = IF Len(live_timestamps) = 0 THEN "none"
                           ELSE IF /\ Len(sensor1_values) = Len(live_timestamps)
                                   /\ Len(sensor2_values) = Len(live_timestamps)
                                THEN "saved" ELSE "ValueError"]
    /\ UNCHANGED <<recording, ser_is_open>>
    /\ MainFrame

InitThreads ==
    /\ NewCalculator(<<"flat", "early">>)
    /\ args = NoCall
    /\ ret = NoCall
    /\ ThreadStarted

NextThreads ==
    \/ ReaderOpenCsv \/ ReaderWhile \/ ReaderReadline
    \/ ReaderAppendTimestamp \/ ReaderAppendSensor1 \/ ReaderAppendSensor2
    \/ ReaderWriteRow \/ ReaderFinally
    \/ PlotIfLen \/ PlotIfLimit
    \/ PlotSliceTimestamps \/ PlotSliceSensor1 \/ PlotSliceSensor2
    \/ PlotSetLine1 \/ PlotSetLine2
    \/ MainStop \/ MainJoin \/ MainCloseSerial \/ MainSavePlot

SpecThreads == InitThreads /\ [][NextThreads]_vars

\* the first n samples of the device, field by field
SentTimestamps(n) == [k \in 1..n |-> LiveSampleLine(k).parts[1].val]
SentSensor1(n) == [k \in 1..n |-> LiveSampleLine(k).parts[2].val]
SentSensor2(n) == [k \in 1..n |-> LiveSampleLine(k).parts[3].val]

\* C16: under every interleaving of the reader thread, the render callback and
\* main, each of timestamps, sensor1_values and sensor2_values before a step
\* is a prefix of itself after the step (nothing appended is changed or
\* removed); a step that changes one of them is a step of the reader and
\* leaves the renderer where it was; and whenever the reader is not in the
\* middle of its three appends, the three lists hold, field by field, every
\* well-formed sample it has read so far, whatever the renderer has done.
C16_SharedSequencesOnlyGrow ==
    [][/\ IsPrefix(live_timestamps, live_timestamps')
       /\ IsPrefix(sensor1_values, sensor1_values')
       /\ IsPrefix(sensor2_values, sensor2_values')
       /\ <<live_timestamps, sensor1_values, sensor2_values>>'
              # <<live_timestamps, sensor1_values, sensor2_values>> =>
              /\ plot' = plot
              /\ reader'.pc # reader.pc
       /\ reader'.pc \notin {"append_timestamp", "append_sensor1", "append_sensor2"} =>
              /\ live_timestamps' = SentTimestamps(reader'.read)
              /\ sensor1_values' = SentSensor1(reader'.read)
              /\ sensor2_values' = SentSensor2(reader'.read)]_vars

\* every sample of the device has been read and is held in the three lists,
\* while the renderer has run once only, when there was one sample
C16_Witness ==
    /\ reader.read = MaxLive
    /\ reader.pc = "while"
    /\ Len(live_timestamps) = MaxLive
    /\ Len(sensor2_values) = MaxLive
    /\ Len(plot.line2.y) = 1
    /\ plot.pc = "return"

\* C17: once main has set recording to false it stays false and the reader
\* does not go from its loop test into another readline; the lists grow by at
\* most the one sample whose read was in progress; the reader closes the CSV
\* file only after leaving the loop and has closed it when it is done; and
\* main goes from the join to closing the port whatever the reader's position,
\* so the port is closed from then on.
C17_CooperativeShutdown ==
    [][/\ ~recording => ~recording'
       /\ ~recording =>
              /\ ~(reader.pc = "while" /\ reader'.pc = "readline")
              /\ reader'.read <= main'.at_stop[3] + 1
              /\ Len(live_timestamps') <= main'.at_stop[3] + 1
              /\ Len(sensor1_values') <= main'.at_stop[3] + 1
              /\ Len(sensor2_values') <= main'.at_stop[3] + 1
       /\ csv_file'.closed <=> reader'.pc = "done"
       /\ reader'.pc = "done" /\ reader.pc # "done" => reader.pc = "finally"
       /\ main.pc = "join" /\ main'.pc # "join" => main'.pc = "close_serial"
       /\ main'.pc \in {"save_plot", "exited"} => ~ser_is_open']_vars

\* main has closed the port; the reader, which was in a read when the flag was
\* cleared, appended that one sample, left the loop and closed the CSV file
C17_Witness ==
    /\ main.pc = "save_plot"
    /\ ~ser_is_open
    /\ reader.pc = "done"
    /\ csv_file.closed
    /\ Len(sensor2_values) = main.at_stop[3] + 1

\* C19: the sequences the renderer hands to the two plot lines in one
\* execution of update_plot have equal lengths, and position k of each holds
\* the fields of one and the same sample.
C19_RendererTakesWholeSamples ==
    /\ Len(plot.line1.x) = Len(plot.line1.y)
    /\ Len(plot.line2.x) = Len(plot.line2.y)
    /\ plot.pc = "return" => plot.line1.x = plot.line2.x
    /\ \A k \in 1..Min(Len(plot.line1.x), Len(plot.line1.y)) :
           \E n \in 1..MaxLive :
               /\ plot.line1.x[k] = SentTimestamps(n)[n]
               /\ plot.line1.y[k] = SentSensor1(n)[n]
    /\ \A k \in 1..Min(Len(plot.line2.x), Len(plot.line2.y)) :
           \E n \in 1..MaxLive :
               /\ plot.line2.x[k] = SentTimestamps(n)[n]
               /\ plot.line2.y[k] = SentSensor2(n)[n]

====
